---- MODULE Spec2Model ----
(***************************************************************************)
(* Crawl-and-capture pipeline of capturrxs (utils/imageGenerator.ts).      *)
(*                                                                         *)
(* Strings are sequences of tokens; a token is a run of characters that    *)
(* the code never looks inside ("https://", "example.com", "a") or one     *)
(* character it does look at ("/", "#", " ").  What the code does to a     *)
(* string (trim, test a prefix, strip a trailing slash, replace a          *)
(* substring) is done here to the token sequence.                          *)
(***************************************************************************)
EXTENDS Integers, Sequences, FiniteSets, TLC

VARIABLES
    rawUrl,         \* rootUrl argument of generateScreenshots
    config,         \* config argument of generateScreenshots
    site,           \* the documents the crawled site may answer with
    normalizedRoot, \* generateScreenshots: normalizedRoot
    cpc,            \* crawlForLinks: position ("loop", "fetch", "returned", "threw")
    visited,        \* crawlForLinks: visited
    queue,          \* crawlForLinks: queue
    result,         \* crawlForLinks: result
    baseDomain,     \* crawlForLinks: baseDomain
    current,        \* crawlForLinks: current (the node being expanded)
    resultLevels,   \* history: level of each entry of result
    htmlFetches,    \* history: number of HTML fetches issued
    htmlUrls,       \* history: the urls the HTML fetches went to
    failedNodes,    \* history: nodes whose child-discovery fetch failed
    enqueued,       \* history: every url pushed on the queue
    skipped,        \* history: urls of dequeued entries dropped as already visited
    pc,             \* generateScreenshots: position
    urlsToCapture,  \* generateScreenshots: urlsToCapture
    viewports,      \* generateScreenshots: viewports
    images,         \* generateScreenshots: images
    pageIdx,        \* index of url in "for (const url of urlsToCapture)"
    vpIdx,          \* index of viewport in "for (const viewport of viewports)"
    currentOp,      \* generateScreenshots: currentOp
    strategy,       \* captureRealScreenshotWithFallback: strategy (provider names)
    provIdx,        \* index of provider in "for (const provider of strategy)"
    lastError,      \* captureRealScreenshotWithFallback: lastError
    dataUrl,        \* generateScreenshots: dataUrl of the pair being captured
    attempts,       \* history: providers fetched by the current capture call
    outcomes,       \* history: "ok" or the error of each finished fetch of the current call
    response,       \* history: what the latest finished fetch came back with
    lastDims,       \* history: what getImageDimensions resolved with for the attempt
    backoffWaited,  \* history: milliseconds spent in the delays of line 544
    fetchUrls,      \* history: the url each fetch of the current call went to
    thrown,         \* history: the error the current capture call threw ("" if none)
    rateWaited,     \* history: milliseconds spent in the delays of line 429
    calls,          \* two requests side by side: the locals of each call
    answers,        \* two requests side by side: what the collaborators answer
    nameIn,         \* renderer alone: the template and the field values
    renders,        \* renderer alone: the filenames rendered so far
    clock,          \* renderer alone: the day the wall clock shows
    tasks,          \* App: the task list, newest first
    selectedTask,   \* App: id of the selected task, 0 for null
    isProcessing,   \* App: a handleCapture call is running
    newTask,        \* App: id of the task the running call created, 0 for none
    closureTask,    \* App: selectedTask as the running handleCapture closed over it
    faults,         \* history: failures the collaborators have answered with
    failedOps       \* history: values of currentOp whose capture call threw

crawlVars == <<cpc, visited, queue, result, baseDomain, current,
               resultLevels, htmlFetches, htmlUrls, failedNodes, enqueued, skipped>>
inputVars == <<rawUrl, config, site, normalizedRoot>>
captureVars == <<pc, urlsToCapture, viewports, images, pageIdx, vpIdx, currentOp,
                 strategy, provIdx, lastError, dataUrl, attempts, outcomes, response,
                 lastDims, backoffWaited, fetchUrls, thrown,
                 rateWaited, faults, failedOps>>
pairVars == <<calls, answers>>
nameVars == <<nameIn, renders, clock>>
taskVars == <<tasks, selectedTask, isProcessing, newTask, closureTask>>
sideVars == <<pairVars, nameVars, taskVars>>
vars == <<inputVars, crawlVars, captureVars, sideVars>>

----------------------------------------------------------------------------
(* Bounds of the model *)

\* Largest crawl depth drawn for a crawl checked on its own.
MaxDepth == 3
\* Largest crawl depth drawn for a whole request.
MaxRequestDepth == 2
\* Failures (provider fetches, dimension detections) the collaborators may
\* answer with during one request.
MaxFaults == 3

----------------------------------------------------------------------------
(* Strings and URLs *)

HttpSchemes == {"https://", "http://", "HTTPS://"}
OpaqueSchemes == {"mailto:", "tel:", "javascript:"}
HostTokens == {"www.", "sub.", "example.com", "Example.com", "other.org"}

\* The URL parser lower-cases the scheme and the host.
LowerTok(t) ==
    CASE t = "HTTPS://" -> "https://"
      [] t = "Example.com" -> "example.com"
      [] OTHER -> t

\* White space: a space, a tab.
WhiteSpace == {" ", "\t"}

RECURSIVE TrimStart(_)
TrimStart(s) == IF s # <<>> /\ Head(s) \in WhiteSpace THEN TrimStart(Tail(s)) ELSE s

RECURSIVE TrimEnd(_)
TrimEnd(s) ==
    IF s # <<>> /\ s[Len(s)] \in WhiteSpace
    THEN TrimEnd(SubSeq(s, 1, Len(s) - 1))
    ELSE s

\* String.prototype.trim
Trim(s) == TrimEnd(TrimStart(s))

\* First index of token t in s, Len(s) + 1 when absent.
RECURSIVE IndexFrom(_, _, _)
IndexFrom(s, t, i) ==
    IF i > Len(s) \/ s[i] = t THEN i ELSE IndexFrom(s, t, i + 1)

IndexOf(s, t) == IndexFrom(s, t, 1)

\* Last index of token t in s, 0 when absent.
RECURSIVE LastIndexFrom(_, _, _)
LastIndexFrom(s, t, i) ==
    IF i = 0 \/ s[i] = t THEN i ELSE LastIndexFrom(s, t, i - 1)

RECURSIVE HostEnd(_, _)
HostEnd(s, i) ==
    IF i <= Len(s) /\ s[i] \in HostTokens THEN HostEnd(s, i + 1) ELSE i

InvalidUrl == [ok |-> FALSE, scheme |-> "", host |-> <<>>, path |-> <<>>, hash |-> <<>>]

\* new URL(s) for s without surrounding spaces.
ParseTrimmed(s) ==
    IF s = <<>> THEN InvalidUrl
    ELSE IF s[1] \in OpaqueSchemes
    THEN [ok |-> TRUE, scheme |-> s[1], host |-> <<>>, path |-> Tail(s), hash |-> <<>>]
    ELSE IF s[1] \notin HttpSchemes THEN InvalidUrl
    ELSE LET e == HostEnd(s, 2)
             rest == SubSeq(s, e, Len(s))
             h == IndexOf(rest, "#")
             p == SubSeq(rest, 1, h - 1)
         IN  IF e = 2 THEN InvalidUrl
             ELSE IF rest # <<>> /\ rest[1] \notin {"/", "#"} THEN InvalidUrl
             ELSE [ok |-> TRUE,
                   scheme |-> LowerTok(s[1]),
                   host |-> [i \in 1..(e - 2) |-> LowerTok(s[i + 1])],
                   path |-> IF p = <<>> THEN <<"/">> ELSE p,
                   hash |-> SubSeq(rest, h, Len(rest))]

\* new URL(s): scheme, host, path, fragment; throws (ok = FALSE) when s has
\* no scheme, no host, or something that cannot follow a host.  The parser
\* drops leading and trailing spaces first.
ParseUrl(s) == ParseTrimmed(Trim(s))

\* URL.href
Href(u) == <<u.scheme>> \o u.host \o u.path \o u.hash

\* new URL(href, base): base is an href the parser produced.  A relative
\* href has no meaning against a base without a host, and throws.
ResolveUrl(href, base) ==
    LET b == ParseUrl(base)
        dir == SubSeq(b.path, 1, LastIndexFrom(b.path, "/", Len(b.path)))
    IN  IF href # <<>> /\ href[1] \in HttpSchemes \cup OpaqueSchemes THEN ParseUrl(href)
        ELSE IF b.scheme \in OpaqueSchemes THEN InvalidUrl
        ELSE IF href = <<>> THEN b
        ELSE IF href[1] = "/" THEN ParseUrl(<<b.scheme>> \o b.host \o href)
        ELSE IF href[1] = "#" THEN ParseUrl(<<b.scheme>> \o b.host \o b.path \o href)
        ELSE ParseUrl(<<b.scheme>> \o b.host \o dir \o href)

\* /^https?:\/\//i.test(s)
HasHttpScheme(s) == s # <<>> /\ s[1] \in HttpSchemes

normalizeUrl(url) ==
    LET trimmed == Trim(url)
        normalized == IF HasHttpScheme(trimmed) THEN trimmed
                      ELSE <<"https://">> \o trimmed
        u == ParseUrl(normalized)
    IN  IF u.ok THEN Href(u) ELSE url

\* s.replace(/\/$/, '')
StripSlash(s) ==
    IF s # <<>> /\ s[Len(s)] = "/" THEN SubSeq(s, 1, Len(s) - 1) ELSE s

----------------------------------------------------------------------------
(* Inputs *)

RawUrls ==
    { <<"example.com">>,
      <<" ", "example.com", " ">>,
      <<"HTTPS://", "Example.com">>,
      <<"http://", "www.", "example.com", "/", "a", "/">>,
      <<"https://", "example.com", "/", "a", "#", "top">>,
      <<"mailto:", "a">>,
      << >>,
      <<" ", "exa", " ", "mple">> }

hRoot == <<"/">>
hA == <<"/", "a">>
hASlash == <<"/", "a", "/">>
hB == <<"/", "b">>
hC == <<"/", "c">>
hD == <<"/", "d">>
hE == <<"/", "e">>
hRel == <<"e">>
hFrag == <<"#", "top">>
hMail == <<"mailto:", "a">>
hScript == <<"javascript:", "a">>
hTel == <<"tel:", "a">>
hSub == <<"https://", "sub.", "example.com", "/">>
hWww == <<"https://", "www.", "example.com", "/", "b">>
hOther == <<"https://", "other.org", "/", "a">>
hBad == <<"https://">>

\* Documents: the href attributes of a page's anchors in document order
\* (<< >> is an anchor with no href or an empty one).
DocDense == <<hFrag, hA, hB, hC, hD, hE>>
DocDup == <<hA, hA, hASlash, hRoot, hB>>
DocCross == <<hMail, hSub, hOther, hBad, << >>, hTel, hWww, hScript, hRel>>
DocCycle == <<hRoot, hASlash>>

Docs == {DocDense, DocDup, DocCross}

\* A page whose links have a percent-encoded path and the path of an image.
hPct == <<"/", "a", "%", "20", "b">>
hImg == <<"/", "logo", ".png">>
DocAssets == <<hPct, hImg>>

\* Documents of the site of a whole request.
DocPair == <<hOther, hSub, hASlash>>
SmallSite == {DocCycle, DocPair}

DefaultTemplate == <<"{domain}", "_", "{date}", "_", "{viewport}">>

RichTemplate ==
    <<"{domain}", "{path}", "/", "{width}", "x", "{height}", "_", "{index}", ".PNG">>

\* The template of the specification's example.
IndexTemplate == <<"{domain}", "_", "{viewport}", "_", "{index}">>

\* Filename templates: empty, blank, with repeated placeholders, with an
\* extension of their own, with characters no filename may hold.
Templates ==
    { << >>,
      <<" ", "\t">>,
      DefaultTemplate,
      IndexTemplate,
      <<"{viewport}", "{path}", "_", "{viewport}", "(", "{width}", "x", "{height}", ")">>,
      RichTemplate,
      <<"{path}", ".jpg">>,
      <<"{domain}", "{path}">>,
      <<"{date}", " ", "{", "x", "}", ":", "{time}">> }

\* Resolutions (width and height 0 stand for a missing value) and filename
\* template of a request.
Presets ==
    { [desktopRes |-> [width |-> 1920, height |-> 1080],
       mobileRes |-> [width |-> 430, height |-> 932],
       filenameTemplate |-> DefaultTemplate],
      [desktopRes |-> [width |-> 0, height |-> 0],
       mobileRes |-> [width |-> 0, height |-> 0],
       filenameTemplate |-> <<" ">>],
      [desktopRes |-> [width |-> 1366, height |-> 768],
       mobileRes |-> [width |-> 360, height |-> 800],
       filenameTemplate |-> RichTemplate] }

Configs(depths) ==
    { [depth |-> d, desktop |-> dk, mobile |-> mb, fullPage |-> fp,
       desktopRes |-> p.desktopRes, mobileRes |-> p.mobileRes,
       filenameTemplate |-> p.filenameTemplate] :
         d \in depths, dk \in BOOLEAN, mb \in BOOLEAN, fp \in BOOLEAN,
         p \in Presets }

\* Root urls of the crawls checked on their own.
CrawlUrls ==
    { <<"example.com">>,
      <<"http://", "www.", "example.com", "/", "a", "/">>,
      <<"mailto:", "a">>,
      << >> }

\* Root urls of the whole requests.
RequestUrls ==
    { <<"example.com">>,
      <<"http://", "www.", "example.com", "/", "a", "/">>,
      <<"sub.", "www.", "example.com">>,
      <<"mailto:", "a">>,
      <<" ", "exa", " ", "mple">> }

\* The config the control panel starts with.
DefaultConfig ==
    [depth |-> 1, desktop |-> TRUE, mobile |-> TRUE, fullPage |-> TRUE,
     desktopRes |-> [width |-> 1440, height |-> 900],
     mobileRes |-> [width |-> 393, height |-> 852],
     filenameTemplate |-> DefaultTemplate]

----------------------------------------------------------------------------
(* crawlForLinks *)

PROXY_BASE == "https://corsproxy.io/?"

\* encodeURIComponent: every part of the url is escaped.
EncodeURIComponent(s) ==
    [i \in 1..(2 * Len(s)) |-> IF i % 2 = 1 THEN "%" ELSE s[i \div 2]]

\* Line 256: the address the html of a page is fetched at.
ProxyUrl(url) == <<PROXY_BASE>> \o EncodeURIComponent(url)

maxLinksPerLevel == 4

NoNode == [url |-> <<>>, level |-> 0]

\* Mutant of Shift: the head is read and left on the queue.
ShiftPeek(q) == q

\* queue.shift(): what is left of the queue.
Shift(q) == Tail(q)

\* Mutant of AlreadyVisited: the visited set is never consulted.
AlreadyVisitedNever(cleanUrl) == FALSE

\* visited.has(cleanUrl)
AlreadyVisited(cleanUrl) == cleanUrl \in visited

\* Mutant of ShouldExpand: every node is expanded, whatever its level.
ShouldExpandAlways(level, depth) == TRUE

\* Mutant of ShouldExpand: nodes at the maximal depth are expanded too.
ShouldExpandInclusive(level, depth) == level <= depth

\* current.level < depth
ShouldExpand(level, depth) == level < depth

\* Mutant of IsInternal: any host under the root's domain is followed.
IsInternalSuffix(resolvedUrl) ==
    /\ resolvedUrl.host # <<>>
    /\ baseDomain # <<>>
    /\ resolvedUrl.host[Len(resolvedUrl.host)] = baseDomain[Len(baseDomain)]

\* resolvedUrl.hostname === baseDomain
IsInternal(resolvedUrl) == resolvedUrl.host = baseDomain

IsSkippedHref(href) ==
    \/ href = <<>>
    \/ href[1] = "#"
    \/ href[1] \in OpaqueSchemes

\* Mutant of Push: the child is put at the head of the queue.
PushFront(q, node) == <<node>> \o q

\* Line 282: queue.push(...)
Push(q, node) == Append(q, node)

\* Mutant of UnderCap: there is no cap.
UnderCapAlways(foundCount) == TRUE

\* Mutant of UnderCap: the cap is tested after the child is counted.
UnderCapInclusive(foundCount) == foundCount <= maxLinksPerLevel

\* Line 281: foundCount < maxLinksPerLevel
UnderCap(foundCount) == foundCount < maxLinksPerLevel

\* The body of "for (const a of anchors)": the queue after anchors i.. of
\* the page have been looked at, foundCount children enqueued so far.
RECURSIVE ScanAnchors(_, _, _, _)
ScanAnchors(anchors, i, q, foundCount) ==
    IF i > Len(anchors) THEN q
    ELSE IF IsSkippedHref(anchors[i]) THEN ScanAnchors(anchors, i + 1, q, foundCount)
    ELSE LET resolvedUrl == ResolveUrl(anchors[i], current.url)
             nextUrl == Href(resolvedUrl)
             cleanNext == StripSlash(nextUrl)
         IN  IF /\ resolvedUrl.ok
                /\ IsInternal(resolvedUrl)
                /\ cleanNext \notin visited
                /\ UnderCap(foundCount)
             THEN ScanAnchors(anchors, i + 1,
                              Push(q, [url |-> nextUrl, level |-> current.level + 1]),
                              foundCount + 1)
             ELSE ScanAnchors(anchors, i + 1, q, foundCount)

\* One iteration of the while loop up to its first await (or its end).
CrawlDequeue ==
    /\ cpc = "loop"
    /\ queue # <<>>
    /\ LET cur == Head(queue)
           cleanUrl == StripSlash(cur.url)
       IN  /\ queue' = Shift(queue)
           /\ IF AlreadyVisited(cleanUrl)
              THEN /\ skipped' = skipped \cup {cur.url}
                   /\ UNCHANGED <<cpc, visited, result, current, resultLevels,
                                  htmlFetches, htmlUrls>>
              ELSE /\ visited' = visited \cup {cleanUrl}
                   /\ result' = Append(result, cur.url)
                   /\ resultLevels' = Append(resultLevels, cur.level)
                   /\ IF ShouldExpand(cur.level, config.depth)
                      THEN /\ cpc' = "fetch"
                           /\ current' = cur
                           /\ htmlFetches' = htmlFetches + 1
                           /\ htmlUrls' = htmlUrls \cup {ProxyUrl(cur.url)}
                      ELSE UNCHANGED <<cpc, current, htmlFetches, htmlUrls>>
                   /\ UNCHANGED skipped
    /\ UNCHANGED <<baseDomain, failedNodes, enqueued, inputVars, sideVars, captureVars>>

\* Mutant of HtmlFetchFail: a node whose children cannot be fetched is
\* taken out of the result.
HtmlFetchFailDrops ==
    /\ cpc = "fetch"
    /\ cpc' = "loop"
    /\ failedNodes' = failedNodes \cup {current.url}
    /\ current' = NoNode
    /\ result' = SubSeq(result, 1, Len(result) - 1)
    /\ resultLevels' = SubSeq(resultLevels, 1, Len(resultLevels) - 1)
    /\ UNCHANGED <<visited, queue, baseDomain, htmlFetches, htmlUrls,
                   enqueued, skipped, inputVars, sideVars, captureVars>>

\* Mutant of HtmlFetchFail: the error of the fetch leaves crawlForLinks.
HtmlFetchFailAborts ==
    /\ cpc = "fetch"
    /\ cpc' = "threw"
    /\ failedNodes' = failedNodes \cup {current.url}
    /\ current' = NoNode
    /\ UNCHANGED <<visited, queue, result, baseDomain, resultLevels, htmlFetches, htmlUrls,
                   enqueued, skipped, inputVars, sideVars, captureVars>>

\* The fetch rejects, or answers with a status that is not ok.
HtmlFetchFail ==
    /\ cpc = "fetch"
    /\ cpc' = "loop"
    /\ failedNodes' = failedNodes \cup {current.url}
    /\ current' = NoNode
    /\ UNCHANGED <<visited, queue, result, baseDomain, resultLevels, htmlFetches, htmlUrls,
                   enqueued, skipped, inputVars, sideVars, captureVars>>

\* The fetch answers with a document; its anchors are scanned.
HtmlFetchOk ==
    /\ cpc = "fetch"
    /\ \E doc \in site :
          /\ queue' = ScanAnchors(doc, 1, queue, 0)
          /\ enqueued' = enqueued \cup
                { queue'[i].url : i \in (Len(queue) + 1)..Len(queue') }
    /\ cpc' = "loop"
    /\ current' = NoNode
    /\ UNCHANGED <<visited, result, baseDomain, resultLevels, htmlFetches, htmlUrls,
                   failedNodes, skipped, inputVars, sideVars, captureVars>>

CrawlReturn ==
    /\ cpc = "loop"
    /\ queue = <<>>
    /\ cpc' = "returned"
    /\ UNCHANGED <<visited, queue, result, baseDomain, current, resultLevels,
                   htmlFetches, htmlUrls, failedNodes, enqueued, skipped, inputVars,
                   sideVars, captureVars>>

CrawlNext == CrawlDequeue \/ HtmlFetchFail \/ HtmlFetchOk \/ CrawlReturn

\* State on entry to crawlForLinks(normalizedRoot, config.depth, ...): the
\* locals are initialised; new URL(baseUrl) throws for an unparseable root.
CrawlEntry(baseUrl) ==
    /\ visited = {}
    /\ result = <<>>
    /\ resultLevels = <<>>
    /\ current = NoNode
    /\ htmlFetches = 0
    /\ htmlUrls = {}
    /\ failedNodes = {}
    /\ skipped = {}
    /\ IF ParseUrl(baseUrl).ok
       THEN /\ cpc = "loop"
            /\ queue = <<[url |-> baseUrl, level |-> 1]>>
            /\ enqueued = {baseUrl}
            /\ baseDomain = ParseUrl(baseUrl).host
       ELSE /\ cpc = "threw"
            /\ queue = <<>>
            /\ enqueued = {}
            /\ baseDomain = <<>>

----------------------------------------------------------------------------
(* Filename synthesis *)

\* s.replace(t, v) with a string pattern: the first occurrence only.
RECURSIVE ReplaceFirst(_, _, _)
ReplaceFirst(s, t, v) ==
    IF s = <<>> THEN <<>>
    ELSE IF Head(s) = t THEN v \o Tail(s)
    ELSE <<Head(s)>> \o ReplaceFirst(Tail(s), t, v)

\* Mutant of ReplaceAll: the pattern has no g flag.
ReplaceOnlyFirst(s, t, v) == ReplaceFirst(s, t, v)

\* s.replace(/t/g, v): every occurrence.
RECURSIVE ReplaceAll(_, _, _)
ReplaceAll(s, t, v) ==
    IF s = <<>> THEN <<>>
    ELSE (IF Head(s) = t THEN v ELSE <<Head(s)>>) \o ReplaceAll(Tail(s), t, v)

\* urlObj.hostname.replace('www.', '')
cleanHostname(u) == ReplaceFirst(u.host, "www.", <<>>)

\* urlObj.pathname === '/' ? '' : urlObj.pathname.replace(/\//g, '-')
cleanPath(u) == IF u.path = <<"/">> THEN <<>> ELSE ReplaceAll(u.path, "/", <<"-">>)

\* `${year}-${month}-${day}` and `${hours}-${minutes}` of the request's "now".
dateText == <<"2026-11-03">>
timeText == <<"10-19">>

\* Tokens with a character outside [a-zA-Z0-9-_. \[\]()].
IllegalTokens == {"/", "#", ":", "{", "}", "%", "\t"}

\* Mutant of Sanitize: the name is used as substituted.
SanitizeNothing(s) == s

\* filename.replace(/[^a-zA-Z0-9-_. \[\]()]/g, '_')
Sanitize(s) == [i \in 1..Len(s) |-> IF s[i] \in IllegalTokens THEN "_" ELSE s[i]]

\* toLowerCase() of an extension token.
LowerExt(t) ==
    CASE t = ".JPG" -> ".jpg"
      [] t = ".PNG" -> ".png"
      [] OTHER -> t

HasImageExtension(s) == s # <<>> /\ LowerExt(s[Len(s)]) \in {".jpg", ".png"}

\* Mutant of EffectiveTemplate: only the empty template is replaced.
EffectiveTemplateNoTrim(tmpl) == IF tmpl # <<>> THEN tmpl ELSE DefaultTemplate

\* Lines 380-382: the default template stands in for an empty or blank one.
EffectiveTemplate(tmpl) ==
    IF tmpl # <<>> /\ Trim(tmpl) # <<>> THEN tmpl ELSE DefaultTemplate

\* Mutant of DateField: the date is read from the clock at each rendering.
DateFieldNow(f) == clock

\* Lines 323-328 and 386: the date is the one taken once, before the loop.
DateField(f) == f.date

\* Mutant of EnsureExtension: the extension is compared as it is written.
EnsureExtensionAsWritten(s) ==
    IF s # << >> /\ s[Len(s)] \in {".jpg", ".png"} THEN s ELSE s \o <<".jpg">>

\* Lines 398-400: ".jpg" is appended to a name with no image extension.
EnsureExtension(s) == IF HasImageExtension(s) THEN s ELSE s \o <<".jpg">>

\* Lines 380-395: the template with its fields substituted, sanitised.
SanitizedName(tmpl, f) ==
    LET template == EffectiveTemplate(tmpl)
        r1 == ReplaceAll(template, "{domain}", f.domain)
        r2 == ReplaceAll(r1, "{path}", f.path)
        r3 == ReplaceAll(r2, "{date}", DateField(f))
        r4 == ReplaceAll(r3, "{time}", f.time)
        r5 == ReplaceAll(r4, "{viewport}", <<f.viewport>>)
        r6 == ReplaceAll(r5, "{width}", <<ToString(f.width)>>)
        r7 == ReplaceAll(r6, "{height}", <<ToString(f.height)>>)
        r8 == ReplaceAll(r7, "{index}", <<ToString(f.index)>>)
    IN  Sanitize(r8)

\* Lines 380-400: the filename a template renders to for given field values.
RenderFilename(tmpl, f) == EnsureExtension(SanitizedName(tmpl, f))

\* Lines 355-358 and 380-400: the filename of a captured image.
Filename(tmpl, u, viewport, width, height, index) ==
    RenderFilename(tmpl, [domain |-> cleanHostname(u), path |-> cleanPath(u),
                          date |-> dateText, time |-> timeText,
                          viewport |-> viewport.type, width |-> width,
                          height |-> height, index |-> index])

\* Mutant of ErrorFilename: the viewport is left out of the name.
ErrorFilenameNoViewport(u, viewport) ==
    <<"error_">> \o cleanHostname(u) \o <<".jpg">>

\* Line 424: the filename of an error placeholder.
ErrorFilename(u, viewport) ==
    <<"error_">> \o cleanHostname(u) \o <<"_", viewport.type, ".jpg">>

----------------------------------------------------------------------------
(* captureRealScreenshotWithFallback and fetchImageAsBase64 *)

\* providers[0], providers[1], providers[2]
microlink == "microlink"
thumio == "thum.io"
mshots == "mshots"

\* Mutant of SelectStrategy: the viewport type is not looked at.
SelectStrategyAnyViewport(type, fullPage) ==
    IF fullPage THEN <<microlink, thumio>>
    ELSE <<mshots, microlink, thumio>>

\* Mutant of SelectStrategy: the full-page flag is not looked at.
SelectStrategyAnyFullPage(type, fullPage) ==
    IF type = "mobile" THEN <<microlink, thumio>>
    ELSE <<mshots, microlink, thumio>>

\* Lines 512-525: the providers to try, in order.
SelectStrategy(type, fullPage) ==
    IF type = "mobile" THEN <<microlink, thumio>>
    ELSE IF fullPage THEN <<microlink, thumio>>
    ELSE <<mshots, microlink, thumio>>

\* Mutant of NextProvider: the provider that failed is fetched again.
RetryProvider(i) == i

\* Line 529: the for-of loop moves to the next provider of the strategy.
NextProvider(i) == i + 1

\* Line 529: the strategy has a provider after the i-th.
HasNextProvider(i, strat) == i < Len(strat)

GenericError == "All screenshot providers failed"

\* Mutant of ThrowError: the error of the providers is not passed on.
ThrowGeneric(err) == GenericError

\* Line 548: throw lastError || new Error('All screenshot providers failed')
ThrowError(err) == IF err # "" THEN err ELSE GenericError

\* Line 544: delay(500)
BackoffMs == 500

\* Mutant of BackoffAfter: the last provider of the strategy is not waited for.
BackoffOnlyBetween(i, strat) == IF i < Len(strat) THEN BackoffMs ELSE 0

\* Lines 540-545: the catch block waits, whichever provider failed.
BackoffAfter(i, strat) == BackoffMs

\* Mutant of UseProxy: every provider is fetched through the proxy.
UseProxyAlways(name) == TRUE

\* Lines 477, 494 and 507: the useProxy flag of a provider.
UseProxy(name) == name # microlink

\* Lines 481, 485 and 506: where the url of a provider starts.
ProviderBase(name) ==
    CASE name = microlink -> "https://api.microlink.io/?"
      [] name = thumio -> "https://image.thum.io/get/width/"
      [] name = mshots -> "https://s0.wp.com/mshots/v1/"

\* provider.getUrl(): the provider's address followed by the url of the page
\* (the parameters for width, height and full page are left out).
ProviderUrl(name, url) == <<ProviderBase(name)>> \o url

\* Lines 534-536: the url the provider is fetched at.
UrlToFetch(name, url) ==
    IF UseProxy(name)
    THEN <<PROXY_BASE>> \o EncodeURIComponent(ProviderUrl(name, url))
    ELSE ProviderUrl(name, url)

\* What a fetch of a provider may come back with: whether a response arrives
\* at all, response.ok, blob.size, blob.type, and how the FileReader ends.
ProviderResponses ==
    { [arrives |-> FALSE, ok |-> FALSE, size |-> 0, type |-> << >>, read |-> "load"],
      [arrives |-> TRUE, ok |-> FALSE, size |-> 5000, type |-> <<"image", "/", "jpeg">>,
       read |-> "load"],
      [arrives |-> TRUE, ok |-> TRUE, size |-> 99, type |-> <<"image", "/", "jpeg">>,
       read |-> "load"],
      [arrives |-> TRUE, ok |-> TRUE, size |-> 5000, type |-> <<"text", "/", "html">>,
       read |-> "load"],
      [arrives |-> TRUE, ok |-> TRUE, size |-> 5000, type |-> <<"image", "/", "jpeg">>,
       read |-> "error"],
      [arrives |-> TRUE, ok |-> TRUE, size |-> 100, type |-> <<"image", "/", "jpeg">>,
       read |-> "load"] }

\* No fetch of the current call has finished.
NoResponse == [arrives |-> FALSE, ok |-> FALSE, size |-> 0, type |-> << >>, read |-> ""]

\* Mutant of TooSmall: a body of exactly 100 bytes is rejected too.
TooSmallInclusive(size) == size <= 100

\* Line 557: blob.size < 100
TooSmall(size) == size < 100

\* Line 557: blob.type.indexOf('image') === -1, on the parts of the type.
IsImageType(type) == \E i \in 1..Len(type) : type[i] = "image"

\* The events a FileReader fires, in order, and reader.result at loadend.
ReaderEvents(resp) ==
    IF resp.read = "load" THEN <<"load", "loadend">> ELSE <<"error", "loadend">>

ReaderResult(resp) ==
    IF resp.read = "load" THEN <<"data:">> \o resp.type \o <<";base64,", "bytes">>
    ELSE << >>

\* Lines 561-566: onloadend resolves, onerror rejects; the first to run
\* settles the promise.
RECURSIVE SettleReader(_, _)
SettleReader(events, value) ==
    IF events = <<>> THEN [resolved |-> FALSE, value |-> <<>>, error |-> "pending"]
    ELSE IF Head(events) = "error"
    THEN [resolved |-> FALSE, value |-> <<>>, error |-> "read error"]
    ELSE IF Head(events) = "loadend"
    THEN [resolved |-> TRUE, value |-> value, error |-> ""]
    ELSE SettleReader(Tail(events), value)

\* The outcome of fetchImageAsBase64 for one response.
fetchImageAsBase64(resp) ==
    IF ~resp.arrives
    THEN [resolved |-> FALSE, value |-> <<>>, error |-> "network error"]
    ELSE IF ~resp.ok
    THEN [resolved |-> FALSE, value |-> <<>>, error |-> "Status"]
    ELSE IF TooSmall(resp.size) \/ ~IsImageType(resp.type)
    THEN [resolved |-> FALSE, value |-> <<>>, error |-> "Invalid image data received"]
    ELSE SettleReader(ReaderEvents(resp), ReaderResult(resp))

\* What getImageDimensions may resolve with; 0 x 0 when the image fails to load.
ImageDimensions == { [width |-> 1024, height |-> 3000], [width |-> 0, height |-> 0] }

\* canvas.toDataURL('image/jpeg') of the error placeholder.
createErrorPlaceholder(width, height, url) ==
    <<"data:", "image", "/", "jpeg", ";base64,", "canvas">>

----------------------------------------------------------------------------
(* generateScreenshots *)

\* No image has been measured in the attempt at hand.
NoDims == [width |-> 0, height |-> 0]

\* Mutant of OrElse: the detected value is used as it is.
OrElseFirst(a, b) == a

\* a || b on numbers
OrElse(a, b) == IF a # 0 THEN a ELSE b

\* Mutant of BuildViewports: the mobile viewport is pushed first.
BuildViewportsMobileFirst(cfg) ==
    (IF cfg.mobile
     THEN <<[type |-> "mobile",
             width |-> IF cfg.mobileRes.width # 0 THEN cfg.mobileRes.width ELSE 393,
             height |-> IF cfg.mobileRes.height # 0 THEN cfg.mobileRes.height ELSE 852]>>
     ELSE <<>>)
    \o
    (IF cfg.desktop
     THEN <<[type |-> "desktop",
             width |-> IF cfg.desktopRes.width # 0 THEN cfg.desktopRes.width ELSE 1440,
             height |-> IF cfg.desktopRes.height # 0 THEN cfg.desktopRes.height ELSE 900]>>
     ELSE <<>>)

\* Lines 333-349
BuildViewports(cfg) ==
    (IF cfg.desktop
     THEN <<[type |-> "desktop",
             width |-> OrElse(cfg.desktopRes.width, 1440),
             height |-> OrElse(cfg.desktopRes.height, 900)]>>
     ELSE <<>>)
    \o
    (IF cfg.mobile
     THEN <<[type |-> "mobile",
             width |-> OrElse(cfg.mobileRes.width, 393),
             height |-> OrElse(cfg.mobileRes.height, 852)]>>
     ELSE <<>>)

\* Mutant of CrawlOutcome: a crawl that throws leaves no page to capture.
CrawlOutcomeEmpty ==
    IF cpc = "returned" /\ Len(result) > 0 THEN result ELSE <<>>

\* Lines 316-320: the pages to capture once the crawl has ended.
CrawlOutcome ==
    IF cpc = "returned" /\ Len(result) > 0 THEN result ELSE <<normalizedRoot>>

\* Mutant of CrawlSettled: crawlForLinks is called without await.
CrawlNotAwaited == TRUE

\* Line 316: await crawlForLinks(...) has returned or thrown.
CrawlSettled == cpc \in {"returned", "threw"}

\* Lines 317-352: the crawl has returned or thrown; the capture phase is set up.
AfterCrawl ==
    /\ pc = "crawl"
    /\ CrawlSettled
    /\ urlsToCapture' = CrawlOutcome
    /\ viewports' = BuildViewports(config)
    /\ images' = <<>>
    /\ currentOp' = 0
    /\ pageIdx' = 1
    /\ pc' = "page"
    /\ UNCHANGED <<vpIdx, strategy, provIdx, lastError, thrown, dataUrl, attempts,
                   outcomes, response, lastDims, backoffWaited, fetchUrls, faults, failedOps,
                   rateWaited, inputVars, sideVars, crawlVars>>

\* Lines 354-358: the next url; new URL(url) throws out of generateScreenshots.
NextPage ==
    /\ pc = "page"
    /\ pageIdx <= Len(urlsToCapture)
    /\ IF ParseUrl(urlsToCapture[pageIdx]).ok
       THEN /\ pc' = "viewport"
            /\ vpIdx' = 1
       ELSE /\ pc' = "threw"
            /\ UNCHANGED vpIdx
    /\ UNCHANGED <<urlsToCapture, viewports, images, pageIdx, currentOp, strategy,
                   provIdx, lastError, thrown, dataUrl, attempts, outcomes, response, lastDims,
                   backoffWaited, fetchUrls, faults, failedOps, rateWaited, inputVars,
                   sideVars, crawlVars>>

\* Line 433
ReturnImages ==
    /\ pc = "page"
    /\ pageIdx > Len(urlsToCapture)
    /\ pc' = "done"
    /\ UNCHANGED <<urlsToCapture, viewports, images, pageIdx, vpIdx, currentOp,
                   strategy, provIdx, lastError, thrown, dataUrl, attempts, outcomes,
                   response, lastDims, backoffWaited, fetchUrls, faults, failedOps, rateWaited,
                   inputVars, sideVars, crawlVars>>

\* The viewports of one url are exhausted.
PageDone ==
    /\ pc = "viewport"
    /\ vpIdx > Len(viewports)
    /\ pageIdx' = pageIdx + 1
    /\ pc' = "page"
    /\ UNCHANGED <<urlsToCapture, viewports, images, vpIdx, currentOp, strategy,
                   provIdx, lastError, thrown, dataUrl, attempts, outcomes, response, lastDims,
                   backoffWaited, fetchUrls, faults, failedOps, rateWaited, inputVars,
                   sideVars, crawlVars>>

\* Lines 361-373 and 449-539: the attempt starts and the first provider of
\* the strategy is fetched.
StartCapture ==
    /\ pc = "viewport"
    /\ vpIdx <= Len(viewports)
    /\ currentOp' = currentOp + 1
    /\ strategy' = SelectStrategy(viewports[vpIdx].type, config.fullPage)
    /\ provIdx' = 1
    /\ attempts' = <<strategy'[1]>>
    /\ outcomes' = <<>>
    /\ response' = NoResponse
    /\ lastDims' = NoDims
    /\ backoffWaited' = 0
    /\ fetchUrls' = <<UrlToFetch(strategy'[1], urlsToCapture[pageIdx])>>
    /\ thrown' = ""
    /\ lastError' = ""
    /\ dataUrl' = <<>>
    /\ pc' = "fetch"
    /\ UNCHANGED <<urlsToCapture, viewports, images, pageIdx, vpIdx, faults,
                   failedOps, rateWaited, inputVars, sideVars,
                   crawlVars>>

\* Line 539 returns; lines 375-377: a truthy dataUrl is measured next.
ProviderFetchOk ==
    /\ pc = "fetch"
    /\ \E resp \in ProviderResponses :
          LET out == fetchImageAsBase64(resp)
          IN  /\ out.resolved
              /\ response' = resp
              /\ dataUrl' = out.value
              /\ pc' = IF out.value # <<>> THEN "dims" ELSE "delay"
    /\ outcomes' = Append(outcomes, "ok")
    /\ UNCHANGED <<urlsToCapture, viewports, images, pageIdx, vpIdx, currentOp, strategy,
                   provIdx, lastError, thrown, attempts, lastDims, backoffWaited, fetchUrls,
                   faults, failedOps, rateWaited, inputVars, sideVars, crawlVars>>

\* Lines 540-544: the provider failed; the error is kept and the backoff starts.
ProviderFetchFail ==
    /\ pc = "fetch"
    /\ faults < MaxFaults
    /\ \E resp \in ProviderResponses :
          LET out == fetchImageAsBase64(resp)
          IN  /\ ~out.resolved
              /\ response' = resp
              /\ lastError' = out.error
    /\ faults' = faults + 1
    /\ outcomes' = Append(outcomes, lastError')
    /\ pc' = "backoff"
    /\ UNCHANGED <<urlsToCapture, viewports, images, pageIdx, vpIdx, currentOp, strategy,
                   provIdx, dataUrl, attempts, thrown, lastDims, backoffWaited, fetchUrls,
                   failedOps, rateWaited, inputVars, sideVars, crawlVars>>

\* Lines 417-425: the record of a pair whose capture threw.
PlaceholderImage(url, viewport) ==
    [url |-> url,
     dataUrl |-> createErrorPlaceholder(viewport.width, viewport.height, url),
     viewport |-> viewport.type,
     width |-> viewport.width,
     height |-> viewport.height,
     filename |-> ErrorFilename(ParseUrl(url), viewport)]

\* Mutant of IndexValue: the count starts again with every page.
IndexValuePerPage(op, vp) == vp

\* Lines 361 and 392: {index} is the value of currentOp, which counts the
\* attempts of the whole request.
IndexValue(op, vp) == op

\* Lines 403-411: the record of a captured pair.
CapturedImage(url, viewport, data, actualDims, index) ==
    [url |-> url,
     dataUrl |-> data,
     viewport |-> viewport.type,
     width |-> OrElse(actualDims.width, viewport.width),
     height |-> OrElse(actualDims.height, viewport.height),
     filename |-> Filename(config.filenameTemplate, ParseUrl(url), viewport,
                           OrElse(actualDims.width, viewport.width),
                           OrElse(actualDims.height, viewport.height), index)]

\* Mutant of OnCaptureError: the failed pair is logged and nothing is appended.
OnCaptureErrorDrop(imgs, url, viewport) == imgs

\* Lines 413-426: what the catch block appends.
OnCaptureError(imgs, url, viewport) == Append(imgs, PlaceholderImage(url, viewport))

\* Mutant of Backoff: the capture call is not inside a try block, and the
\* error of the last provider leaves generateScreenshots.
BackoffNoCatch ==
    /\ pc = "backoff"
    /\ IF provIdx < Len(strategy)
       THEN /\ provIdx' = provIdx + 1
            /\ attempts' = Append(attempts, strategy[provIdx + 1])
            /\ fetchUrls' = Append(fetchUrls, UrlToFetch(strategy[provIdx + 1],
                                                         urlsToCapture[pageIdx]))
            /\ pc' = "fetch"
       ELSE /\ pc' = "threw"
            /\ UNCHANGED <<provIdx, attempts, fetchUrls>>
    /\ backoffWaited' = backoffWaited + BackoffMs
    /\ UNCHANGED <<urlsToCapture, viewports, images, pageIdx, vpIdx, currentOp, strategy,
                   lastError, thrown, outcomes, response, lastDims, dataUrl, faults, failedOps,
                   rateWaited, inputVars, sideVars, crawlVars>>

\* The 500 ms backoff has elapsed: the next provider is fetched, or the
\* call throws lastError and the catch of lines 413-426 appends a placeholder.
Backoff ==
    /\ pc = "backoff"
    /\ IF HasNextProvider(provIdx, strategy)
       THEN /\ provIdx' = NextProvider(provIdx)
            /\ attempts' = Append(attempts, strategy[provIdx'])
            /\ fetchUrls' = Append(fetchUrls, UrlToFetch(strategy[provIdx'],
                                                         urlsToCapture[pageIdx]))
            /\ pc' = "fetch"
            /\ UNCHANGED <<images, failedOps, thrown>>
       ELSE /\ thrown' = ThrowError(lastError)
            /\ images' = OnCaptureError(images, urlsToCapture[pageIdx], viewports[vpIdx])
            /\ failedOps' = failedOps \cup {currentOp}
            /\ pc' = "delay"
            /\ UNCHANGED <<provIdx, attempts, fetchUrls>>
    /\ backoffWaited' = backoffWaited + BackoffAfter(provIdx, strategy)
    /\ UNCHANGED <<urlsToCapture, viewports, pageIdx, vpIdx, currentOp, strategy,
                   lastError, outcomes, response, lastDims, dataUrl, faults, rateWaited,
                   inputVars, sideVars, crawlVars>>

\* Lines 377-411: getImageDimensions has resolved; the record is appended.
Dimensions ==
    /\ pc = "dims"
    /\ \E actualDims \in ImageDimensions :
          /\ actualDims.width = 0 => faults < MaxFaults
          /\ faults' = IF actualDims.width = 0 THEN faults + 1 ELSE faults
          /\ lastDims' = actualDims
          /\ images' = Append(images,
                              CapturedImage(urlsToCapture[pageIdx], viewports[vpIdx],
                                            dataUrl, actualDims,
                                            IndexValue(currentOp, vpIdx)))
    /\ pc' = "delay"
    /\ UNCHANGED <<urlsToCapture, viewports, pageIdx, vpIdx, currentOp, strategy,
                   provIdx, lastError, thrown, dataUrl, attempts, outcomes, response,
                   backoffWaited, fetchUrls, failedOps, rateWaited, inputVars,
                   sideVars, crawlVars>>

\* Line 429: delay(1500)
RateLimitMs == 1500

\* Mutant of RateLimitDelay: the delay sits inside the try block, after the
\* push, and an attempt that ended in the catch goes on without it.
RateLimitDelayInTry ==
    /\ pc = "delay"
    /\ vpIdx' = vpIdx + 1
    /\ pc' = "viewport"
    /\ strategy' = <<>>
    /\ provIdx' = 0
    /\ lastError' = ""
    /\ thrown' = ""
    /\ dataUrl' = <<>>
    /\ attempts' = <<>>
    /\ outcomes' = <<>>
    /\ response' = NoResponse
    /\ lastDims' = NoDims
    /\ backoffWaited' = 0
    /\ fetchUrls' = <<>>
    /\ rateWaited' = IF currentOp \in failedOps THEN rateWaited
                     ELSE rateWaited + RateLimitMs
    /\ UNCHANGED <<urlsToCapture, viewports, images, pageIdx, currentOp, faults,
                   failedOps, inputVars, sideVars, crawlVars>>

\* Line 429: the 1500 ms delay has elapsed; on to the next viewport.  The
\* locals of the finished iteration and of its capture call are gone.
RateLimitDelay ==
    /\ pc = "delay"
    /\ vpIdx' = vpIdx + 1
    /\ pc' = "viewport"
    /\ strategy' = <<>>
    /\ provIdx' = 0
    /\ lastError' = ""
    /\ thrown' = ""
    /\ dataUrl' = <<>>
    /\ attempts' = <<>>
    /\ outcomes' = <<>>
    /\ response' = NoResponse
    /\ lastDims' = NoDims
    /\ backoffWaited' = 0
    /\ fetchUrls' = <<>>
    /\ rateWaited' = rateWaited + RateLimitMs
    /\ UNCHANGED <<urlsToCapture, viewports, images, pageIdx, currentOp, faults,
                   failedOps, inputVars, sideVars, crawlVars>>

CaptureNext ==
    \/ AfterCrawl
    \/ NextPage
    \/ ReturnImages
    \/ PageDone
    \/ StartCapture
    \/ ProviderFetchOk
    \/ ProviderFetchFail
    \/ Backoff
    \/ Dimensions
    \/ RateLimitDelay

----------------------------------------------------------------------------
(* Specifications *)

\* State of generateScreenshots while it awaits crawlForLinks (line 316).
CaptureEntry ==
    /\ pc = "crawl"
    /\ urlsToCapture = <<normalizedRoot>>
    /\ viewports = <<>>
    /\ images = <<>>
    /\ pageIdx = 0
    /\ vpIdx = 0
    /\ currentOp = 0
    /\ strategy = <<>>
    /\ provIdx = 0
    /\ lastError = ""
    /\ dataUrl = <<>>
    /\ attempts = <<>>
    /\ outcomes = <<>>
    /\ response = NoResponse
    /\ lastDims = NoDims
    /\ backoffWaited = 0
    /\ fetchUrls = <<>>
    /\ thrown = ""
    /\ rateWaited = 0
    /\ faults = 0
    /\ failedOps = {}

\* No second request is running beside the one at hand.
NoPair ==
    /\ calls = << >>
    /\ answers = [htmlFails |-> {}, captureFails |-> {}]

\* No filename is rendered outside the request at hand.
NoRenderer ==
    /\ nameIn = [template |-> << >>, fields |-> << >>]
    /\ renders = << >>
    /\ clock = dateText

\* The App holds no task.
NoTasks ==
    /\ tasks = << >>
    /\ selectedTask = 0
    /\ isProcessing = FALSE
    /\ newTask = 0
    /\ closureTask = 0

\* A whole request against a small site.
Init ==
    /\ rawUrl \in RequestUrls
    /\ config \in Configs(1..MaxRequestDepth)
    /\ site = SmallSite
    /\ normalizedRoot = normalizeUrl(rawUrl)
    /\ CrawlEntry(normalizedRoot)
    /\ CaptureEntry
    /\ NoPair
    /\ NoRenderer
    /\ NoTasks

Next == CrawlNext \/ CaptureNext

Spec == Init /\ [][Next]_vars

\* Requests that differ in their filename template, against a site whose
\* paths show in the filenames.
RenderInit ==
    /\ rawUrl = <<"http://", "www.", "example.com">>
    /\ \E dk \in BOOLEAN, t \in Templates :
          config = [DefaultConfig EXCEPT !.depth = MaxRequestDepth, !.desktop = dk,
                                         !.filenameTemplate = t]
    /\ site = {DocAssets}
    /\ normalizedRoot = normalizeUrl(rawUrl)
    /\ CrawlEntry(normalizedRoot)
    /\ CaptureEntry
    /\ NoPair
    /\ NoRenderer
    /\ NoTasks

RenderSpec == RenderInit /\ [][Next]_vars

\* crawlForLinks on its own, against a site with dense, cyclic and
\* cross-domain pages and every depth up to MaxDepth.
CrawlInit ==
    /\ rawUrl \in CrawlUrls
    /\ \E d \in 0..MaxDepth : config = [DefaultConfig EXCEPT !.depth = d]
    /\ site = Docs
    /\ normalizedRoot = normalizeUrl(rawUrl)
    /\ CrawlEntry(normalizedRoot)
    /\ CaptureEntry
    /\ NoPair
    /\ NoRenderer
    /\ NoTasks

CrawlSpec == CrawlInit /\ [][CrawlNext]_vars

\* The event loop runs every continuation that is ready, and every fetch
\* of the crawl is assumed to return or fail.
CrawlFairSpec == CrawlSpec /\ WF_vars(CrawlNext)

----------------------------------------------------------------------------
(* Two requests side by side *)

\* Two generateScreenshots calls whose steps interleave at their awaits.
\* Each call has the locals of crawlForLinks and of generateScreenshots in a
\* record of its own; a capture attempt is taken as one step.
Calls == {1, 2}

PairRoots ==
    { <<"https://", "example.com", "/">>, <<"https://", "example.com", "/", "a">> }

\* The document the site serves for a url.
PairDoc(url) ==
    IF StripSlash(url) = <<"https://", "example.com">> THEN <<hA, hB>>
    ELSE IF StripSlash(url) = <<"https://", "example.com", "/", "a">>
    THEN <<hRoot, hB, hC>>
    ELSE << >>

\* Mutant of PairVisited: visited is a set of the module, one for all calls.
PairVisitedShared(c) == calls[1].visited \cup calls[2].visited

\* Line 233: visited is a local of the call.
PairVisited(c) == calls[c].visited

\* Lines 268-287 with the locals of the call as parameters.
RECURSIVE PairScan(_, _, _, _, _, _, _)
PairScan(anchors, i, q, foundCount, node, seen, domain) ==
    IF i > Len(anchors) THEN q
    ELSE IF IsSkippedHref(anchors[i])
    THEN PairScan(anchors, i + 1, q, foundCount, node, seen, domain)
    ELSE LET resolvedUrl == ResolveUrl(anchors[i], node.url)
             nextUrl == Href(resolvedUrl)
         IN  IF /\ resolvedUrl.ok
                /\ resolvedUrl.host = domain
                /\ StripSlash(nextUrl) \notin seen
                /\ foundCount < maxLinksPerLevel
             THEN PairScan(anchors, i + 1,
                           Append(q, [url |-> nextUrl, level |-> node.level + 1]),
                           foundCount + 1, node, seen, domain)
             ELSE PairScan(anchors, i + 1, q, foundCount, node, seen, domain)

\* Lines 233-235 and 322-352: the locals of a call that has just started.
PairEntry(root, depth, tags) ==
    [root |-> root, depth |-> depth, tags |-> tags, pos |-> "loop",
     visited |-> {}, queue |-> <<[url |-> root, level |-> 1]>>, result |-> << >>,
     current |-> NoNode, pages |-> <<root>>, images |-> << >>, op |-> 0]

\* Lines 240-252 of call c.
PairDequeue(c) ==
    /\ calls[c].pos = "loop"
    /\ calls[c].queue # << >>
    /\ LET cur == Head(calls[c].queue)
           cleanUrl == StripSlash(cur.url)
       IN  calls' =
             IF cleanUrl \in PairVisited(c)
             THEN [calls EXCEPT ![c].queue = Tail(@)]
             ELSE [calls EXCEPT
                     ![c].queue = Tail(@),
                     ![c].visited = PairVisited(c) \cup {cleanUrl},
                     ![c].result = Append(@, cur.url),
                     ![c].pos = IF cur.level < calls[c].depth THEN "fetch" ELSE "loop",
                     ![c].current = IF cur.level < calls[c].depth THEN cur ELSE NoNode]
    /\ UNCHANGED <<answers, nameVars, taskVars, inputVars, crawlVars, captureVars>>

\* Lines 257-293 of call c: the html fetch has come back.
PairHtmlAnswer(c) ==
    /\ calls[c].pos = "fetch"
    /\ calls' =
          [calls EXCEPT
             ![c].queue =
                 IF calls[c].current.url \in answers.htmlFails THEN @
                 ELSE PairScan(PairDoc(calls[c].current.url), 1, @, 0,
                               calls[c].current, PairVisited(c),
                               ParseUrl(calls[c].root).host),
             ![c].pos = "loop",
             ![c].current = NoNode]
    /\ UNCHANGED <<answers, nameVars, taskVars, inputVars, crawlVars, captureVars>>

\* Lines 297 and 317 of call c: the crawl returns its result.
PairCrawlReturn(c) ==
    /\ calls[c].pos = "loop"
    /\ calls[c].queue = << >>
    /\ calls' = [calls EXCEPT
                   ![c].pages = IF Len(calls[c].result) > 0 THEN calls[c].result ELSE @,
                   ![c].pos = "capture"]
    /\ UNCHANGED <<answers, nameVars, taskVars, inputVars, crawlVars, captureVars>>

\* The record of the k-th attempt over pages and tags, in page-major order.
PairRecord(pages, tags, k) ==
    LET url == pages[((k - 1) \div Len(tags)) + 1]
    IN  [url |-> url, viewport |-> tags[((k - 1) % Len(tags)) + 1], index |-> k,
         failed |-> url \in answers.captureFails]

\* Lines 361-429 of call c: one attempt, from currentOp++ to the delay.
PairAttempt(c) ==
    /\ calls[c].pos = "capture"
    /\ calls[c].op < Len(calls[c].pages) * Len(calls[c].tags)
    /\ calls' = [calls EXCEPT
                   ![c].op = @ + 1,
                   ![c].images =
                       Append(@, PairRecord(calls[c].pages, calls[c].tags,
                                            calls[c].op + 1))]
    /\ UNCHANGED <<answers, nameVars, taskVars, inputVars, crawlVars, captureVars>>

\* Line 433 of call c.
PairReturn(c) ==
    /\ calls[c].pos = "capture"
    /\ calls[c].op = Len(calls[c].pages) * Len(calls[c].tags)
    /\ calls' = [calls EXCEPT ![c].pos = "done"]
    /\ UNCHANGED <<answers, nameVars, taskVars, inputVars, crawlVars, captureVars>>

PairNext ==
    \E c \in Calls :
        \/ PairDequeue(c)
        \/ PairHtmlAnswer(c)
        \/ PairCrawlReturn(c)
        \/ PairAttempt(c)
        \/ PairReturn(c)

\* Two requests, the second one started anywhere in the run of the first,
\* against collaborators whose answer depends on the url alone.
PairInit ==
    /\ rawUrl = <<"example.com">>
    /\ config = DefaultConfig
    /\ site = SmallSite
    /\ normalizedRoot = normalizeUrl(rawUrl)
    /\ CrawlEntry(normalizedRoot)
    /\ CaptureEntry
    /\ NoRenderer
    /\ NoTasks
    /\ \E r \in PairRoots, d1 \in 1..MaxRequestDepth, d2 \in 1..MaxRequestDepth :
          calls = [c \in Calls |->
                     IF c = 1
                     THEN PairEntry(<<"https://", "example.com", "/">>, d1,
                                    <<"desktop", "mobile">>)
                     ELSE PairEntry(r, d2, <<"mobile">>)]
    /\ \E hf \in SUBSET PairRoots, cf \in SUBSET {<<"https://", "example.com", "/", "b">>} :
          answers = [htmlFails |-> hf, captureFails |-> cf]

PairSpec == PairInit /\ [][PairNext]_vars

----------------------------------------------------------------------------
(* The filename renderer alone *)

MaxRenders == 2

\* Field values a rendering is given.
NameFields ==
    [domain : {<<"example.com">>, <<"docs.", "example.com">>},
     path : {<< >>, <<"_", "a", "_", "b">>},
     date : {dateText, <<"2026-11-04">>},
     time : {timeText},
     viewport : {"desktop", "mobile"},
     width : {1920},
     height : {1080, 4000},
     index : {1, 2}]

\* Lines 380-400, run once more on the same template and field values.
RenderAgain ==
    /\ Len(renders) < MaxRenders
    /\ renders' = Append(renders, RenderFilename(nameIn.template, nameIn.fields))
    /\ UNCHANGED <<nameIn, clock, pairVars, taskVars, inputVars, crawlVars, captureVars>>

\* Midnight passes between two renderings.
ClockTick ==
    /\ clock = dateText
    /\ clock' = <<"2026-11-04">>
    /\ UNCHANGED <<nameIn, renders, pairVars, taskVars, inputVars, crawlVars, captureVars>>

NameNext == RenderAgain \/ ClockTick

NameInit ==
    /\ rawUrl = <<"example.com">>
    /\ config = DefaultConfig
    /\ site = SmallSite
    /\ normalizedRoot = normalizeUrl(rawUrl)
    /\ CrawlEntry(normalizedRoot)
    /\ CaptureEntry
    /\ NoPair
    /\ nameIn \in [template : Templates, fields : NameFields]
    /\ renders = << >>
    /\ clock = dateText
    /\ NoTasks

NameSpec == NameInit /\ [][NameNext]_vars

----------------------------------------------------------------------------
(* App: handleCapture and the task list *)

MaxTasks == 4

\* tasks.map(t => t.id === id ? {...t, status} : t)
SetStatus(list, id, status) ==
    [i \in 1..Len(list) |->
        IF list[i].id = id THEN [list[i] EXCEPT !.status = status] ELSE list[i]]

\* Lines 85-99: handleCapture is called (the capture button is disabled
\* while isProcessing); a task with a fresh id is put in front of the list
\* and selected.  The callback closed over selectedTask as it was rendered.
HandleCapture ==
    /\ ~isProcessing
    /\ Len(tasks) < MaxTasks
    /\ isProcessing' = TRUE
    /\ newTask' = Len(tasks) + 1
    /\ closureTask' = selectedTask
    /\ tasks' = <<[id |-> newTask', status |-> "loading"]>> \o tasks
    /\ selectedTask' = newTask'
    /\ UNCHANGED <<pairVars, nameVars, inputVars, crawlVars, captureVars>>

\* Lines 107-129: generateScreenshots resolved.
CaptureCompleted ==
    /\ isProcessing
    /\ tasks' = SetStatus(tasks, newTask, "completed")
    /\ isProcessing' = FALSE
    /\ UNCHANGED <<selectedTask, newTask, closureTask>>
    /\ UNCHANGED <<pairVars, nameVars, inputVars, crawlVars, captureVars>>

\* Lines 124-129: generateScreenshots rejected; the catch block marks the
\* task whose id is selectedTask?.id of the closure.
CaptureFailed ==
    /\ isProcessing
    /\ tasks' = SetStatus(tasks, closureTask, "error")
    /\ isProcessing' = FALSE
    /\ UNCHANGED <<selectedTask, newTask, closureTask>>
    /\ UNCHANGED <<pairVars, nameVars, inputVars, crawlVars, captureVars>>

\* Line 143: a task of the sidebar is clicked.
SelectTask ==
    /\ \E i \in 1..Len(tasks) :
          /\ tasks[i].id # selectedTask
          /\ selectedTask' = tasks[i].id
    /\ UNCHANGED <<tasks, isProcessing, newTask, closureTask>>
    /\ UNCHANGED <<pairVars, nameVars, inputVars, crawlVars, captureVars>>

TaskNext == HandleCapture \/ CaptureCompleted \/ CaptureFailed \/ SelectTask

TaskInit ==
    /\ rawUrl = <<"example.com">>
    /\ config = DefaultConfig
    /\ site = SmallSite
    /\ normalizedRoot = normalizeUrl(rawUrl)
    /\ CrawlEntry(normalizedRoot)
    /\ CaptureEntry
    /\ NoPair
    /\ NoRenderer
    /\ NoTasks

TaskSpec == TaskInit /\ [][TaskNext]_vars

----------------------------------------------------------------------------
(* Properties *)

Range(s) == { s[i] : i \in 1..Len(s) }

\* The root url parses as an absolute url.
RootParses == ParseUrl(normalizedRoot).ok

\* Number of viewports the request enables.
EnabledViewports ==
    (IF config.desktop THEN 1 ELSE 0) + (IF config.mobile THEN 1 ELSE 0)

\* The page and the viewport of the k-th attempt, in page-major order.
PairUrl(k) == urlsToCapture[((k - 1) \div Len(viewports)) + 1]
PairViewport(k) == viewports[((k - 1) % Len(viewports)) + 1]

IsPlaceholder(img) == img.dataUrl = <<"data:", "image", "/", "jpeg", ";base64,", "canvas">>

\* C1: for a request whose root url parses, the list generateScreenshots
\* returns has (pages the crawl returned) x (enabled viewports) records,
\* whichever captures failed.
C1_ResultSize ==
    (pc = "done" /\ RootParses) => Len(images) = Len(result) * EnabledViewports

C1_Witness ==
    /\ pc = "done"
    /\ RootParses
    /\ Len(result) >= 2
    /\ EnabledViewports = 2
    /\ failedOps # {}
    /\ \E k \in 1..Len(images) : k \notin failedOps

\* C2: for a request whose root url parses, generateScreenshots never
\* throws, neither from the crawl nor from a capture; a pair whose capture
\* failed has a record in the list.
C2_NeverThrows ==
    RootParses => /\ pc # "threw"
                  /\ cpc # "threw"
                  /\ pc = "done" => failedOps \subseteq 1..Len(images)

C2_Witness ==
    /\ pc = "done"
    /\ RootParses
    /\ failedNodes # {}
    /\ Cardinality(failedOps) >= 1
    /\ faults >= 2

\* C3: a pair all of whose providers failed has exactly one record, at its
\* place in the list, named error_<domain>_<viewport>.jpg and sized as the
\* requested viewport; the records of the other pairs are captures of their
\* own pair.
C3_Placeholder ==
    \A k \in 1..Len(images) :
        IF k \in failedOps
        THEN /\ images[k].url = PairUrl(k)
             /\ images[k].viewport = PairViewport(k).type
             /\ images[k].filename =
                   <<"error_">> \o cleanHostname(ParseUrl(PairUrl(k)))
                                \o <<"_", PairViewport(k).type, ".jpg">>
             /\ images[k].width = PairViewport(k).width
             /\ images[k].height = PairViewport(k).height
             /\ IsPlaceholder(images[k])
             /\ \A j \in 1..Len(images) :
                   (images[j].url = images[k].url
                      /\ images[j].viewport = images[k].viewport) => j = k
        ELSE /\ images[k].url = PairUrl(k)
             /\ images[k].viewport = PairViewport(k).type
             /\ ~IsPlaceholder(images[k])

C3_Witness ==
    /\ pc = "done"
    /\ rawUrl = <<"http://", "www.", "example.com", "/", "a", "/">>
    /\ Len(images) >= 3
    /\ 2 \in failedOps
    /\ 1 \notin failedOps
    /\ 3 \notin failedOps

\* C4: the list crawlForLinks returns is not empty and starts with the root
\* url, also when the fetch of the root page failed.
C4_RootFirst ==
    cpc = "returned" => (Len(result) >= 1 /\ result[1] = normalizedRoot)

C4_Witness ==
    /\ cpc = "returned"
    /\ normalizedRoot \in failedNodes

\* C5: for a depth of 1 or more, every url the crawl returns, and every url
\* it enqueues, has the hostname of the root url.
C5_SameHost ==
    config.depth >= 1 =>
        LET rootHost == ParseUrl(normalizedRoot).host
        IN  \A u \in Range(result) \cup enqueued : ParseUrl(u).host = rootHost

C5_Witness ==
    /\ cpc = "returned"
    /\ normalizedRoot = <<"http://", "www.", "example.com", "/", "a", "/">>
    /\ <<"http://", "www.", "example.com", "/", "a", "/", "e">> \in Range(result)
    /\ Len(result) >= 4

\* C6: no two entries of the crawl result are the same url once one
\* trailing slash is stripped.
C6_NoDuplicates ==
    Cardinality({ StripSlash(result[i]) : i \in 1..Len(result) }) = Len(result)

C6_Witness ==
    /\ cpc = "returned"
    /\ <<"https://", "example.com", "/", "a">> \in Range(result)
    /\ <<"https://", "example.com", "/", "a", "/">> \in skipped
    /\ <<"https://", "example.com", "/", "a">> \in skipped

\* C7: with depth 1 the crawl fetches no html and returns the root url
\* alone; for the input "example.com" that is ["https://example.com/"].
C7_DepthOne ==
    config.depth = 1 =>
        /\ htmlFetches = 0
        /\ cpc # "fetch"
        /\ cpc = "returned" => result = <<normalizedRoot>>
        /\ (cpc = "returned" /\ rawUrl = <<"example.com">>)
              => result = << <<"https://", "example.com", "/">> >>

C7_Witness ==
    /\ config.depth = 1
    /\ cpc = "returned"
    /\ rawUrl = <<"example.com">>

\* C8: the crawl loop ends, with an empty queue, when every html fetch
\* returns or fails.
C8_Terminates == <>(cpc \in {"returned", "threw"} /\ queue = <<>>)

C8_Witness ==
    /\ cpc = "returned"
    /\ queue = <<>>
    /\ config.depth >= 3
    /\ Cardinality(skipped) >= 2
    /\ Len(result) >= 5

\* C9: when the child-discovery fetch of a node fails, the node stays in
\* the result, nothing is enqueued, the loop goes on; and when the crawl
\* returns, every failed node is in the result and every entry that was
\* ever enqueued has been processed.
C9_FetchFailure ==
    [][ /\ (cpc = "fetch" /\ failedNodes' # failedNodes) =>
              /\ cpc' = "loop"
              /\ result' = result
              /\ queue' = queue
              /\ enqueued' = enqueued
              /\ current.url \in Range(result')
        /\ cpc' = "returned" =>
              /\ failedNodes' \subseteq Range(result')
              /\ queue' = <<>>
              /\ \A u \in enqueued' : StripSlash(u) \in visited'
      ]_vars

C9_Witness ==
    /\ cpc = "returned"
    /\ \E i \in 2..Len(result) :
          /\ result[i] \in failedNodes
          /\ i < Len(result)

\* C10: for a mobile viewport the first provider fetched is microlink, the
\* providers fetched are a prefix of [microlink, thum.io], and mshots is
\* never fetched, with or without full page.
C10_MobileProviders ==
    (pc \in {"fetch", "backoff", "dims", "delay"}
       /\ viewports[vpIdx].type = "mobile") =>
        /\ Len(attempts) >= 1
        /\ Len(attempts) <= 2
        /\ attempts = SubSeq(<<"microlink", "thum.io">>, 1, Len(attempts))
        /\ "mshots" \notin Range(attempts)

C10_Witness ==
    /\ pc = "delay"
    /\ viewports[vpIdx].type = "mobile"
    /\ ~config.fullPage
    /\ attempts = <<"microlink", "thum.io">>
    /\ currentOp \in failedOps

\* C11: for a desktop viewport the providers to try are [microlink, thum.io]
\* with full page (mshots is never fetched) and [mshots, microlink, thum.io]
\* without; whatever the page and the resolution, the providers fetched are
\* a non-empty prefix of that list.
C11_DesktopProviders ==
    (pc \in {"fetch", "backoff", "dims", "delay"}
       /\ viewports[vpIdx].type = "desktop") =>
        LET expected == IF config.fullPage
                        THEN <<"microlink", "thum.io">>
                        ELSE <<"mshots", "microlink", "thum.io">>
        IN  /\ strategy = expected
            /\ Len(attempts) >= 1
            /\ Len(attempts) <= Len(expected)
            /\ attempts = SubSeq(expected, 1, Len(attempts))
            /\ config.fullPage => "mshots" \notin Range(attempts)

C11_Witness ==
    /\ pc = "delay"
    /\ viewports[vpIdx].type = "desktop"
    /\ ~config.fullPage
    /\ attempts = <<"mshots", "microlink", "thum.io">>
    /\ currentOp \in failedOps

\* C12: within one capture call the providers fetched are, in order, the
\* first providers of the strategy; every provider fetched before the last
\* one has failed, so nothing is fetched after a provider has returned an
\* image; and no provider is fetched twice.
C12_FetchOrder ==
    pc \in {"fetch", "backoff", "dims", "delay"} =>
        /\ attempts = SubSeq(strategy, 1, Len(attempts))
        /\ Len(attempts) = provIdx
        /\ Len(outcomes) = IF pc = "fetch" THEN Len(attempts) - 1 ELSE Len(attempts)
        /\ \A i \in 1..(Len(attempts) - 1) : outcomes[i] # "ok"
        /\ "ok" \in Range(outcomes) => pc \in {"dims", "delay"}
        /\ \A i, j \in 1..Len(attempts) : attempts[i] = attempts[j] => i = j

C12_Witness ==
    /\ pc = "dims"
    /\ attempts = <<"mshots", "microlink", "thum.io">>
    /\ outcomes = <<"Status", "Invalid image data received", "ok">>

\* C13: a finished capture call has thrown if and only if every provider of
\* its strategy was fetched and failed; the error it throws is the error of
\* the last provider fetched, and the generic error only when no error was
\* kept.
C13_FailsWithLastError ==
    pc = "delay" =>
        LET failed == currentOp \in failedOps
            allFailed == /\ Len(outcomes) = Len(strategy)
                         /\ \A i \in 1..Len(outcomes) : outcomes[i] # "ok"
        IN  /\ failed <=> allFailed
            /\ failed <=> thrown # ""
            /\ failed => /\ attempts = strategy
                          /\ IF outcomes[Len(outcomes)] # ""
                             THEN thrown = outcomes[Len(outcomes)]
                             ELSE thrown = "All screenshot providers failed"

C13_Witness ==
    /\ pc = "delay"
    /\ currentOp \in failedOps
    /\ outcomes = <<"network error", "Status", "read error">>
    /\ thrown = "read error"

\* The records of captured images (the others are error placeholders).
CapturedIndexes == { k \in 1..Len(images) : k \notin failedOps }

\* Every character of the name is in [A-Za-z0-9-_. \[\]()].
AllowedName(f) == \A i \in 1..Len(f) : f[i] \notin IllegalTokens

\* C14 as stated: the filename of every captured image has a character
\* before its extension, only allowed characters, and ends in the literal
\* ".jpg" or ".png".
C14_MatchesPattern ==
    \A k \in CapturedIndexes :
        LET f == images[k].filename
        IN  /\ Len(f) >= 2
            /\ AllowedName(f)
            /\ f[Len(f)] \in {".jpg", ".png"}

\* C14 as the code has it: the filename of every captured image has only
\* allowed characters and ends in ".jpg" or ".png" in some letter case; an
\* extension the template brings is kept as written, and nothing need
\* stand before it.
C14_SafeName ==
    \A k \in CapturedIndexes :
        LET f == images[k].filename
        IN  /\ Len(f) >= 1
            /\ AllowedName(f)
            /\ LowerExt(f[Len(f)]) \in {".jpg", ".png"}

C14_Witness ==
    \E k \in CapturedIndexes :
        /\ config.filenameTemplate = RichTemplate
        /\ images[k].url = <<"http://", "www.", "example.com", "/", "a", "%", "20", "b">>
        /\ images[k].filename[Len(images[k].filename)] = ".PNG"
        /\ "_" \in Range(images[k].filename)

\* The template is empty or holds white space only.
BlankTemplate(t) == \A i \in 1..Len(t) : t[i] \in WhiteSpace

\* C15: under an empty or blank template every captured image is named as
\* the template "{domain}_{date}_{viewport}" names it, for the same page,
\* viewport, dimensions and index: <domain>_<date>_<viewport>.jpg.
C15_BlankIsDefault ==
    BlankTemplate(config.filenameTemplate) =>
        \A k \in CapturedIndexes :
            /\ images[k].filename =
                  Filename(<<"{domain}", "_", "{date}", "_", "{viewport}">>,
                           ParseUrl(images[k].url), PairViewport(k),
                           images[k].width, images[k].height, k)
            /\ images[k].filename =
                  cleanHostname(ParseUrl(images[k].url))
                     \o <<"_">> \o dateText \o <<"_", images[k].viewport, ".jpg">>

C15_Witness ==
    /\ config.filenameTemplate = <<" ", "\t">>
    /\ rawUrl = <<"http://", "www.", "example.com">>
    /\ \E k \in CapturedIndexes :
          images[k].filename = <<"example.com", "_", "2026-11-03", "_", "mobile", ".jpg">>

\* The placeholders the synthesizer recognises.
Placeholders ==
    {"{domain}", "{path}", "{date}", "{time}", "{viewport}", "{width}", "{height}",
     "{index}"}

\* A template of allowed characters and recognised placeholders that is not
\* blank and does not end in an image extension.
PlainTemplate(t) ==
    /\ ~BlankTemplate(t)
    /\ \A i \in 1..Len(t) : t[i] \notin IllegalTokens
    /\ LowerExt(t[Len(t)]) \notin {".jpg", ".png"}

\* The value of a placeholder for the k-th record.
FieldValue(p, k) ==
    CASE p = "{domain}" -> cleanHostname(ParseUrl(images[k].url))
      [] p = "{path}" -> cleanPath(ParseUrl(images[k].url))
      [] p = "{date}" -> dateText
      [] p = "{time}" -> timeText
      [] p = "{viewport}" -> <<images[k].viewport>>
      [] p = "{width}" -> <<ToString(images[k].width)>>
      [] p = "{height}" -> <<ToString(images[k].height)>>
      [] p = "{index}" -> <<ToString(k)>>

\* The template with every placeholder replaced by its value.
RECURSIVE Substituted(_, _)
Substituted(t, k) ==
    IF t = <<>> THEN <<>>
    ELSE (IF Head(t) \in Placeholders THEN FieldValue(Head(t), k) ELSE <<Head(t)>>)
         \o Substituted(Tail(t), k)

NormalizationFails ==
    LET trimmed == Trim(rawUrl)
    IN  ~ParseUrl(IF HasHttpScheme(trimmed) THEN trimmed
                  ELSE <<"https://">> \o trimmed).ok

\* C17: when the raw input does not parse even with https:// before it, no
\* html is fetched, no provider is fetched, no record is made and the
\* request does not return a list.
C17_FailsBeforeNetwork ==
    NormalizationFails =>
        /\ htmlFetches = 0
        /\ currentOp = 0
        /\ attempts = <<>>
        /\ images = <<>>
        /\ pc \in {"crawl", "page", "threw"}

C19_DelayAfterEveryAttempt ==
    /\ pc \in {"fetch", "backoff", "dims", "delay"}
          => rateWaited = (currentOp - 1) * 1500
    /\ pc \in {"page", "viewport", "done"}
          => rateWaited = currentOp * 1500
    /\ pc = "done" => rateWaited = Len(images) * 1500
    /\ pc \in {"page", "viewport", "done"} => Len(images) = currentOp

C19_Witness ==
    /\ pc = "done"
    /\ Len(images) = 4
    /\ rateWaited = 6000
    /\ failedOps = {2}

\* The enabled viewport tags, desktop before mobile.
EnabledTags ==
    (IF config.desktop THEN <<"desktop">> ELSE << >>)
       \o (IF config.mobile THEN <<"mobile">> ELSE << >>)

\* C20: the records are in page-major order, the pages in the order of
\* the crawl result and, within a page, desktop before mobile; every record
\* is of a crawled page and an enabled viewport; and a step appends at most
\* one record and leaves the earlier ones as they are.
C20_PageMajorOrder ==
    [][ /\ \/ images' = images
           \/ /\ Len(images') = Len(images) + 1
              /\ SubSeq(images', 1, Len(images)) = images
        /\ \A k \in 1..Len(images') :
              LET n == Len(EnabledTags')
              IN  /\ cpc' = "returned"
                  /\ n >= 1
                  /\ k <= Len(result') * n
                  /\ images'[k].url = result'[((k - 1) \div n) + 1]
                  /\ images'[k].viewport = EnabledTags'[((k - 1) % n) + 1]
      ]_vars

C20_Witness ==
    /\ pc = "done"
    /\ Len(images) = 4
    /\ EnabledTags = <<"desktop", "mobile">>
    /\ images[2].url = result[1]
    /\ images[2].viewport = "mobile"
    /\ images[3].url = result[2]
    /\ images[3].viewport = "desktop"
    /\ result[1] # result[2]
    /\ 3 \in failedOps

\* Network fetches that have been issued and have not come back: the html
\* fetch of the crawl, the provider fetch of the capture call.
OutstandingFetches ==
    (IF cpc = "fetch" THEN 1 ELSE 0) + (IF pc = "fetch" THEN 1 ELSE 0)

\* C21: at most one network fetch is outstanding at any time, and a
\* provider is fetched only when the crawl has ended: its queue is empty
\* and no html fetch of it is outstanding.
C21_OneFetchAtATime ==
    /\ OutstandingFetches <= 1
    /\ (pc # "crawl" \/ currentOp > 0 \/ attempts # <<>>) =>
          /\ cpc \in {"returned", "threw"}
          /\ queue = <<>>

C21_Witness ==
    /\ pc = "fetch"
    /\ cpc = "returned"
    /\ htmlFetches >= 1
    /\ failedNodes # {}
    /\ currentOp >= 2

\* The result of a crawl that runs alone from queue q, by lines 239-297.
RECURSIVE CrawlAlone(_, _, _, _, _)
CrawlAlone(q, seen, res, depth, domain) ==
    IF q = << >> THEN res
    ELSE LET cur == Head(q)
             cleanUrl == StripSlash(cur.url)
             seenNow == seen \cup {cleanUrl}
         IN  IF cleanUrl \in seen
             THEN CrawlAlone(Tail(q), seen, res, depth, domain)
             ELSE CrawlAlone(
                      IF cur.level < depth /\ cur.url \notin answers.htmlFails
                      THEN PairScan(PairDoc(cur.url), 1, Tail(q), 0, cur, seenNow,
                                    domain)
                      ELSE Tail(q),
                      seenNow, Append(res, cur.url), depth, domain)

\* The pages and the images of the request of call c when it runs alone
\* against the same answers.
PagesAlone(c) ==
    LET res == CrawlAlone(<<[url |-> calls[c].root, level |-> 1]>>, {}, << >>,
                          calls[c].depth, ParseUrl(calls[c].root).host)
    IN  IF Len(res) > 0 THEN res ELSE <<calls[c].root>>

ImagesAlone(c) ==
    [k \in 1..(Len(PagesAlone(c)) * Len(calls[c].tags)) |->
        PairRecord(PagesAlone(c), calls[c].tags, k)]

\* C22: two requests whose steps interleave at their awaits each return what
\* they return when run alone against the same collaborator answers, and a
\* step of one request leaves the visited set, the queue, the result list and
\* every other local of the other request as they were.
C22_NoStateBetweenRequests ==
    [][ /\ \E c \in Calls : \A o \in Calls \ {c} : calls'[o] = calls[o]
        /\ \A c \in Calls :
              calls'[c].pos = "done" =>
                  /\ calls'[c].pages = PagesAlone(c)
                  /\ calls'[c].images = ImagesAlone(c) ]_vars

\* Both requests have returned; they crawled overlapping pages of one site
\* from different roots.
C22_Witness ==
    /\ DOMAIN calls = Calls
    /\ \A c \in Calls : calls[c].pos = "done"
    /\ calls[2].root = <<"https://", "example.com", "/", "a">>
    /\ calls[1].root \in Range(calls[2].pages)
    /\ calls[2].root \in Range(calls[1].pages)
    /\ Len(calls[1].images) > Len(calls[2].images)

C24_ExpandBelowDepth ==
    /\ cpc = "fetch" => current.level < config.depth
    /\ config.depth >= 1 =>
          \A i \in 1..Len(resultLevels) :
              resultLevels[i] >= 1 /\ resultLevels[i] <= config.depth

\* A crawl of depth 3 has returned with entries of level 3, which it did
\* not expand, after it expanded nodes of the levels above.
C24_Witness ==
    /\ cpc = "returned"
    /\ config.depth = 3
    /\ Len(resultLevels) = Len(result)
    /\ 3 \in Range(resultLevels)
    /\ 2 \in Range(resultLevels)
    /\ htmlFetches >= 2

\* An anchor the node at hand may follow: a link to the host of the root
\* that resolves and whose stripped url is not visited.
IsEligible(href) ==
    /\ ~IsSkippedHref(href)
    /\ ResolveUrl(href, current.url).ok
    /\ ResolveUrl(href, current.url).host = baseDomain
    /\ StripSlash(Href(ResolveUrl(href, current.url))) \notin visited

\* The eligible anchors of a document, in document order, as children.
EligibleChildren(doc) ==
    LET el == SelectSeq(doc, IsEligible)
    IN  [i \in 1..Len(el) |->
            [url |-> Href(ResolveUrl(el[i], current.url)), level |-> current.level + 1]]

\* C25: the expansion of a node appends to the queue the first 4 eligible
\* anchors of the page in document order, or all of them when the page has
\* fewer; eligible anchors after the fourth are not enqueued.
C25_FirstFourEligible ==
    [][ (cpc = "fetch" /\ cpc' = "loop" /\ failedNodes' = failedNodes) =>
            \E doc \in site :
                LET children == EligibleChildren(doc)
                    n == IF Len(children) < 4 THEN Len(children) ELSE 4
                IN  queue' = queue \o SubSeq(children, 1, n) ]_vars

\* The root page had five eligible anchors: /a, /b, /c and /d are queued,
\* /e is not.
C25_Witness ==
    /\ cpc = "loop"
    /\ htmlFetches = 1
    /\ result = << <<"https://", "example.com", "/">> >>
    /\ Len(queue) = 4
    /\ queue[1].url = <<"https://", "example.com", "/", "a">>
    /\ queue[4].url = <<"https://", "example.com", "/", "d">>
    /\ <<"https://", "example.com", "/", "e">> \notin enqueued

\* C26: no two entries of the queue have the same stripped url, no entry
\* that is dequeued is skipped as a duplicate, and when the crawl returns
\* every child that was enqueued is in the result.
C26_EveryChildIsResult ==
    /\ \A i, j \in 1..Len(queue) :
          StripSlash(queue[i].url) = StripSlash(queue[j].url) => i = j
    /\ skipped = {}
    /\ cpc = "returned" => enqueued \subseteq Range(result)

\* The latest finished fetch of the call at hand succeeded.
LastFetchOk == outcomes # << >> /\ outcomes[Len(outcomes)] = "ok"

\* The response has a successful status, at least 100 bytes and a content
\* type with 'image' in it.
ValidImageResponse(resp) ==
    /\ resp.arrives
    /\ resp.ok
    /\ resp.size >= 100
    /\ "image" \in Range(resp.type)

\* C27 as stated: a provider attempt succeeds exactly when the response has
\* a successful status, at least 100 bytes and an image content type.
C27_SuccessIffValid ==
    outcomes # << >> => (LastFetchOk <=> ValidImageResponse(response))

\* C27: a provider attempt succeeds exactly when the response has a
\* successful status, at least 100 bytes, an image content type and the
\* FileReader reads the body; then the call is over with a data url. Any
\* other response, or a network error, is a failure of that provider: the
\* capturer waits and fetches the next provider, or fails the pair after
\* the last one.
C27_SuccessIffValidAndRead ==
    outcomes # << >> =>
        /\ LastFetchOk <=> (ValidImageResponse(response) /\ response.read = "load")
        /\ LastFetchOk => /\ pc \in {"dims", "delay"}
                          /\ dataUrl # << >>
                          /\ currentOp \notin failedOps
        /\ ~LastFetchOk =>
              \/ pc = "backoff"
              \/ /\ pc = "fetch"
                 /\ Len(attempts) = Len(outcomes) + 1
                 /\ attempts[Len(attempts)] = strategy[Len(outcomes) + 1]
              \/ /\ pc = "delay"
                 /\ Len(outcomes) = Len(strategy)
                 /\ currentOp \in failedOps

\* A provider failed on invalid image data and the next one succeeded with
\* a body of exactly 100 bytes.
C27_Witness ==
    /\ Len(outcomes) = 2
    /\ outcomes[1] = "Invalid image data received"
    /\ LastFetchOk
    /\ response.size = 100
    /\ pc = "dims"
    /\ faults = 1

\* The number of failed fetches of the call at hand.
FailedFetches == Cardinality({i \in 1..Len(outcomes) : outcomes[i] # "ok"})

\* C28: every failed provider attempt, the last of the strategy included, is
\* followed by one backoff of 500 ms before the next provider is fetched or
\* the call fails; a successful attempt is followed by no backoff and by no
\* further fetch.
C28_BackoffAfterEachFailure ==
    /\ pc = "backoff" => backoffWaited = 500 * (FailedFetches - 1)
    /\ pc # "backoff" => backoffWaited = 500 * FailedFetches
    /\ thrown # "" => backoffWaited = 500 * Len(strategy)
    /\ LastFetchOk => /\ Len(attempts) = Len(outcomes)
                      /\ pc \in {"dims", "delay"}
                      /\ backoffWaited = 500 * (Len(outcomes) - 1)

\* All three providers of a desktop viewport failed: the call has thrown
\* after three backoffs.
C28_Witness ==
    /\ pc = "delay"
    /\ thrown # ""
    /\ Len(outcomes) = 3
    /\ backoffWaited = 1500

\* C29: a fetch of microlink goes to the provider's own url; a fetch of
\* thum.io or mshots goes to the proxy, with the escaped url of the provider
\* behind it; every html fetch of the crawler goes to the proxy.
C29_ProxyRouting ==
    /\ Len(fetchUrls) = Len(attempts)
    /\ \A i \in 1..Len(fetchUrls) :
          /\ attempts[i] = "microlink" =>
                fetchUrls[i][1] = "https://api.microlink.io/?"
          /\ attempts[i] = "thum.io" =>
                /\ fetchUrls[i][1] = "https://corsproxy.io/?"
                /\ fetchUrls[i][3] = "https://image.thum.io/get/width/"
          /\ attempts[i] = "mshots" =>
                /\ fetchUrls[i][1] = "https://corsproxy.io/?"
                /\ fetchUrls[i][3] = "https://s0.wp.com/mshots/v1/"
    /\ \A u \in htmlUrls : u[1] = "https://corsproxy.io/?"
    /\ Cardinality(htmlUrls) = htmlFetches

\* After the html fetch of the crawl, a desktop viewport went through
\* mshots, microlink and thum.io.
C29_Witness ==
    /\ htmlFetches >= 1
    /\ htmlUrls # {}
    /\ attempts = <<"mshots", "microlink", "thum.io">>
    /\ Len(fetchUrls) = 3
    /\ pc = "fetch"

\* C30: under the template "{domain}_{viewport}_{index}" the index in the
\* name of a captured record is its 1-based position in the list, which is
\* the position of its (page, viewport) pair in page-major order with the
\* failed pairs counted; the counter goes up by one when an attempt starts
\* and is never set back.
C30_IndexIsPosition ==
    [][ /\ \/ currentOp' = currentOp
           \/ /\ currentOp' = currentOp + 1
              /\ pc = "viewport"
              /\ pc' = "fetch"
        /\ Len(images') <= currentOp'
        /\ currentOp' <= Len(images') + 1
        /\ config.filenameTemplate = <<"{domain}", "_", "{viewport}", "_", "{index}">> =>
              \A k \in 1..Len(images') :
                  LET f == images'[k].filename
                  IN  /\ images'[k].url = PairUrl(k)'
                      /\ images'[k].viewport = PairViewport(k)'.type
                      /\ k \notin failedOps' =>
                            /\ Len(f) >= 3
                            /\ f[Len(f) - 1] = ToString(k)
                            /\ f[Len(f) - 3] = PairViewport(k)'.type
      ]_vars

\* The first pair failed; the captures after it, on the first page and on the
\* second, carry the indexes 2 and 4.
C30_Witness ==
    /\ config.filenameTemplate = <<"{domain}", "_", "{viewport}", "_", "{index}">>
    /\ Len(viewports) = 2
    /\ Len(images) >= 4
    /\ failedOps = {1}
    /\ images[2].filename = <<"example.com", "_", "mobile", "_", "2", ".jpg">>
    /\ images[4].filename = <<"example.com", "_", "mobile", "_", "4", ".jpg">>
    /\ images[4].url # images[2].url

\* The template whose names end in "(<width>x<height>).jpg".
SizeTemplate ==
    <<"{viewport}", "{path}", "_", "{viewport}", "(", "{width}", "x", "{height}", ")">>

\* C31: the record of a successful capture has the detected width and
\* height, each replaced by the dimension of the requested viewport when the
\* detected value is 0; the values the filename carries for {width} and
\* {height} are those of the record.
C31_DetectedOrRequested ==
    [][ (pc = "dims" /\ pc' = "delay") =>
            LET rec == images'[Len(images')]
                f == rec.filename
                requested == viewports[vpIdx]
            IN  /\ Len(images') = Len(images) + 1
                /\ rec.width = IF lastDims'.width # 0 THEN lastDims'.width
                                ELSE requested.width
                /\ rec.height = IF lastDims'.height # 0 THEN lastDims'.height
                                 ELSE requested.height
                /\ config.filenameTemplate = SizeTemplate =>
                      /\ Len(f) >= 6
                      /\ f[Len(f) - 4] = ToString(rec.width)
                      /\ f[Len(f) - 2] = ToString(rec.height)
      ]_vars

\* The first capture was measured, the second was not: its record and its
\* name carry the requested mobile viewport.
C31_Witness ==
    /\ config.filenameTemplate = SizeTemplate
    /\ config.desktop
    /\ pc = "delay"
    /\ Len(images) = 2
    /\ failedOps = {}
    /\ images[1].width = 1024
    /\ images[1].filename =
          <<"desktop", "_", "desktop", "(", "1024", "x", "3000", ")", ".jpg">>
    /\ lastDims = [width |-> 0, height |-> 0]
    /\ images[2].width = 393
    /\ images[2].filename =
          <<"mobile", "_", "mobile", "(", "393", "x", "852", ")", ".jpg">>

\* The name ends in .jpg or .png, in whatever case.
EndsAsImage(s) == s # << >> /\ s[Len(s)] \in {".jpg", ".png", ".JPG", ".PNG"}

\* C32: the rendered name is the sanitised name itself when that already
\* ends in .jpg or .png in any case, and the sanitised name with ".jpg"
\* behind it otherwise; the step applied to its own result changes nothing.
C32_ExtensionOnce ==
    \A i \in 1..Len(renders) :
        LET sanitized == SanitizedName(nameIn.template, nameIn.fields)
        IN  /\ EndsAsImage(sanitized) => renders[i] = sanitized
            /\ ~EndsAsImage(sanitized) => renders[i] = sanitized \o <<".jpg">>
            /\ EnsureExtension(renders[i]) = renders[i]

\* A template that ends in ".PNG" was rendered: the name is left as it is.
C32_Witness ==
    /\ Len(renders) >= 1
    /\ nameIn.template # << >>
    /\ nameIn.template[Len(nameIn.template)] = ".PNG"
    /\ renders[1][Len(renders[1])] = ".PNG"

\* A hostname with a leading "www." taken off, and nothing else.
WithoutLeadingWww(host) ==
    IF host # << >> /\ host[1] = "www." THEN Tail(host) ELSE host

\* C33: the name of an error placeholder, and the name of a capture under
\* the template "{domain}_{date}_{viewport}", starts with the hostname of the
\* page with a leading "www." removed; a hostname that does not start with
\* "www." is used as it is.
C33_LeadingWwwOnly ==
    \A k \in 1..Len(images) :
        LET domain == WithoutLeadingWww(ParseUrl(images[k].url).host)
        IN  /\ k \in failedOps =>
                  images[k].filename =
                      <<"error_">> \o domain \o <<"_", images[k].viewport, ".jpg">>
            /\ (k \notin failedOps /\ config.filenameTemplate = DefaultTemplate) =>
                  SubSeq(images[k].filename, 1, Len(domain)) = domain

\* C34: when the input does not parse with its scheme in place, the root
\* normalizeUrl hands on is the input with the white space at its ends
\* trimmed and no scheme put before it.
C34_ReturnsTrimmedInput ==
    NormalizationFails => normalizedRoot = Trim(rawUrl)

\* C35: the result is in breadth-first order: it starts with the root at
\* level 1 and the levels of its entries never go down along the list, so an
\* entry of level k comes before every entry of level k + 1; the queue is in
\* the same order behind it.
C35_BreadthFirst ==
    /\ result # << >> => (result[1] = normalizedRoot /\ resultLevels[1] = 1)
    /\ \A i \in 1..(Len(resultLevels) - 1) : resultLevels[i] <= resultLevels[i + 1]
    /\ \A i \in 1..(Len(queue) - 1) : queue[i].level <= queue[i + 1].level
    /\ (queue # << >> /\ resultLevels # << >>) =>
          resultLevels[Len(resultLevels)] <= queue[1].level

\* A crawl of three levels has returned, with several pages of level 2
\* before the pages of level 3.
C35_Witness ==
    /\ cpc = "returned"
    /\ Len(resultLevels) >= 5
    /\ resultLevels[2] = 2
    /\ resultLevels[3] = 2
    /\ resultLevels[Len(resultLevels)] = 3

\* 1 + 4 + 4^2 + ... + 4^(n-1), and 0 for n = 0.
RECURSIVE GeometricSum(_)
GeometricSum(n) == IF n <= 0 THEN 0 ELSE 1 + 4 * GeometricSum(n - 1)

\* C36: for a depth d of 1 or more the result never has more than
\* 1 + 4 + ... + 4^(d-1) entries and the crawl never issues more than
\* 1 + 4 + ... + 4^(d-2) html fetches (none for d = 1).
C36_GeometricBounds ==
    config.depth >= 1 =>
        /\ Len(result) <= GeometricSum(config.depth)
        /\ htmlFetches <= GeometricSum(config.depth - 1)

\* A crawl of depth 2 over a page with five eligible links has returned
\* with 1 + 4 entries after its one html fetch: the bound is met.
C36_Witness ==
    /\ cpc = "returned"
    /\ config.depth = 2
    /\ Len(result) = 5
    /\ htmlFetches = 1

\* The status of the task with the given id.
StatusOf(list, id) ==
    LET hits == {i \in 1..Len(list) : list[i].id = id}
    IN  IF hits = {} THEN "none" ELSE list[CHOOSE i \in hits : TRUE].status

\* C37: when a handleCapture call ends without completing its task, that
\* task ends with status 'error' and every other task of the list keeps
\* its status; and no task is in status 'loading' when no call is running.
C37_FailureMarksOwnTask ==
    [][ /\ (isProcessing /\ ~isProcessing'
              /\ StatusOf(tasks', newTask) # "completed") =>
              /\ StatusOf(tasks', newTask) = "error"
              /\ \A i \in 1..Len(tasks) :
                    tasks[i].id # newTask => tasks'[i] = tasks[i]
        /\ ~isProcessing' =>
              \A i \in 1..Len(tasks') : tasks'[i].status # "loading"
      ]_vars

====
